---- MODULE Spec2Model ----
(***************************************************************************)
(* Model of the solar-system integration engine of                        *)
(* src/minstall/solar_system/solar_system.cpp: the body store, the force   *)
(* evaluator, the velocity-Verlet step, the batch loop, the energy         *)
(* diagnostic and the trajectory buffers; and of the Animation of          *)
(* src/minstall/gamekit/gamekit.cpp.                                       *)
(*                                                                         *)
(* A C++ double is modelled as a record [cls, v]: cls = "fin" with an      *)
(* integer v (arithmetic rounds to the integer grid, toward zero),         *)
(* cls = "inf" with v the sign, or cls = "nan".  The IEEE rules for the    *)
(* non-finite values are kept, so a division by zero is visible.           *)
(***************************************************************************)
EXTENDS Integers, Sequences, FiniteSets, TLC

(***************************************************************************)
(* Bounds of the model.                                                    *)
(***************************************************************************)
\* API calls made on one instance
MaxCalls == 3
\* iterations one call of simulate is followed for
MaxIterations == 12

(***************************************************************************)
(* Program constants, in the model's units.                                *)
(***************************************************************************)
GRAV == 1
AU == 2
SampleStride == 10

(***************************************************************************)
(* double arithmetic                                                       *)
(***************************************************************************)
D(n) == [cls |-> "fin", v |-> n]
NaN == [cls |-> "nan", v |-> 0]
PInf == [cls |-> "inf", v |-> 1]
NInf == [cls |-> "inf", v |-> -1]

IsFinite(a) == a.cls = "fin"

Sgn(n) == IF n > 0 THEN 1 ELSE IF n < 0 THEN -1 ELSE 0
AbsInt(n) == IF n < 0 THEN -n ELSE n
\* integer quotient rounded toward zero
TruncDiv(a, b) == Sgn(a) * Sgn(b) * (AbsInt(a) \div AbsInt(b))

Neg(a) == IF a.cls = "nan" THEN NaN ELSE [cls |-> a.cls, v |-> -a.v]

Add(a, b) ==
    IF a.cls = "nan" \/ b.cls = "nan" THEN NaN
    ELSE IF a.cls = "inf" /\ b.cls = "inf"
         THEN (IF a.v = b.v THEN a ELSE NaN)
    ELSE IF a.cls = "inf" THEN a
    ELSE IF b.cls = "inf" THEN b
    ELSE D(a.v + b.v)

Sub(a, b) == Add(a, Neg(b))

Mul(a, b) ==
    IF a.cls = "nan" \/ b.cls = "nan" THEN NaN
    ELSE IF a.cls = "inf" \/ b.cls = "inf"
         THEN (IF a.v = 0 \/ b.v = 0 THEN NaN
               ELSE [cls |-> "inf", v |-> Sgn(a.v) * Sgn(b.v)])
    ELSE D(a.v * b.v)

\* a zero divisor is +0 wherever the program divides (a square root, a
\* literal or a caller's 0)
Div(a, b) ==
    IF a.cls = "nan" \/ b.cls = "nan" THEN NaN
    ELSE IF a.cls = "inf"
         THEN (IF b.cls = "inf" THEN NaN
               ELSE [cls |-> "inf", v |-> IF b.v < 0 THEN -a.v ELSE a.v])
    ELSE IF b.cls = "inf" THEN D(0)
    ELSE IF b.v = 0
         THEN (IF a.v = 0 THEN NaN ELSE [cls |-> "inf", v |-> Sgn(a.v)])
    ELSE D(TruncDiv(a.v, b.v))

\* 0.5 * a
Half(a) == Div(a, D(2))

Abs(a) == IF a.cls = "nan" THEN NaN ELSE [cls |-> a.cls, v |-> AbsInt(a.v)]

RECURSIVE SqrtSearch(_, _, _)
\* the largest r in lo..hi with r*r <= n
SqrtSearch(n, lo, hi) ==
    IF lo >= hi THEN lo
    ELSE LET mid == (lo + hi + 1) \div 2
         IN  IF mid * mid <= n THEN SqrtSearch(n, mid, hi)
             ELSE SqrtSearch(n, lo, mid - 1)

ISqrt(n) == SqrtSearch(n, 0, IF n < 46340 THEN n ELSE 46340)

Sqrt(a) ==
    IF a.cls = "nan" THEN NaN
    ELSE IF a.cls = "inf" THEN (IF a.v > 0 THEN PInf ELSE NaN)
    ELSE IF a.v < 0 THEN NaN
    ELSE D(ISqrt(a.v))

(***************************************************************************)
(* CelestialBody                                                           *)
(***************************************************************************)
\* a body as the default constructor leaves it, with the fields the setup
\* code assigns
MkBody(id, parent_id, mass, x, y, z, vx, vy, vz, max_points) ==
    [id |-> id, parent_id |-> parent_id, mass |-> D(mass),
     x |-> D(x), y |-> D(y), z |-> D(z),
     vx |-> D(vx), vy |-> D(vy), vz |-> D(vz),
     ax |-> D(0), ay |-> D(0), az |-> D(0),
     ax_old |-> D(0), ay_old |-> D(0), az_old |-> D(0),
     trajectory_x |-> << >>, trajectory_y |-> << >>, trajectory_z |-> << >>,
     trajectory_max_points |-> max_points]

\* a table whose moon is entered without its mass
BodyTable_massless ==
    << MkBody(0, -1, 16, 0, 0, 0, 0, 0, 0, 1),
       MkBody(1, -1, 2, 2, 0, 0, 0, 1, 0, 3),
       MkBody(11, 1, 0, 3, 0, 1, 0, 2, 0, 2),
       MkBody(2, -1, 2, 5, 0, 0, 0, 1, 0, 3) >>

\* the body table of init_real_solar_system, reduced to four bodies and to
\* the model's units.  It keeps the table's shape: the Sun first, planets
\* numbered in store order, a moon stored right after its planet with an id
\* derived from the planet's (31 after 3 in the source, 11 after 1 here),
\* and a capacity per body (the Sun's the smallest).
BodyTable ==
    << MkBody(0, -1, 16, 0, 0, 0, 0, 0, 0, 1),
       MkBody(1, -1, 2, 2, 0, 0, 0, 1, 0, 3),
       MkBody(11, 1, 2, 3, 0, 1, 0, 2, 0, 2),
       MkBody(2, -1, 2, 5, 0, 0, 0, 1, 0, 3) >>

\* std::vector::erase(begin())
EraseFront(s) == SubSeq(s, 2, Len(s))

\* add_trajectory_point evicting as soon as the capacity is reached
add_trajectory_point_eager(b) ==
    LET tx == Append(b.trajectory_x, b.x)
        ty == Append(b.trajectory_y, b.y)
        tz == Append(b.trajectory_z, b.z)
    IN  IF Len(tx) >= b.trajectory_max_points
        THEN [b EXCEPT !.trajectory_x = EraseFront(tx),
                       !.trajectory_y = EraseFront(ty),
                       !.trajectory_z = EraseFront(tz)]
        ELSE [b EXCEPT !.trajectory_x = tx,
                       !.trajectory_y = ty,
                       !.trajectory_z = tz]

\* a push that, once the buffer is over its capacity, erases the oldest x only
add_trajectory_point_x_only(b) ==
    LET tx == Append(b.trajectory_x, b.x)
        ty == Append(b.trajectory_y, b.y)
        tz == Append(b.trajectory_z, b.z)
    IN  IF Len(tx) > b.trajectory_max_points
        THEN [b EXCEPT !.trajectory_x = EraseFront(tx),
                       !.trajectory_y = ty,
                       !.trajectory_z = tz]
        ELSE [b EXCEPT !.trajectory_x = tx,
                       !.trajectory_y = ty,
                       !.trajectory_z = tz]

add_trajectory_point(b) ==
    LET tx == Append(b.trajectory_x, b.x)
        ty == Append(b.trajectory_y, b.y)
        tz == Append(b.trajectory_z, b.z)
    IN  IF Len(tx) > b.trajectory_max_points
        THEN [b EXCEPT !.trajectory_x = EraseFront(tx),
                       !.trajectory_y = EraseFront(ty),
                       !.trajectory_z = EraseFront(tz)]
        ELSE [b EXCEPT !.trajectory_x = tx,
                       !.trajectory_y = ty,
                       !.trajectory_z = tz]

(***************************************************************************)
(* Force evaluator                                                         *)
(***************************************************************************)
\* a contribution that a body's own satellites do not make
Contribution_hierarchical(bs, i, j, acc) ==
    IF bs[j].parent_id = bs[i].id THEN acc
    ELSE LET dx == Sub(bs[j].x, bs[i].x)
             dy == Sub(bs[j].y, bs[i].y)
             dz == Sub(bs[j].z, bs[i].z)
             r_sq == Add(Add(Mul(dx, dx), Mul(dy, dy)), Mul(dz, dz))
             r == Sqrt(r_sq)
             r_cubed == Mul(r_sq, r)
             factor == Div(Mul(D(GRAV), bs[j].mass), r_cubed)
         IN  << Add(acc[1], Mul(factor, dx)),
                Add(acc[2], Mul(factor, dy)),
                Add(acc[3], Mul(factor, dz)) >>

\* one pass of the j loop of compute_acceleration: the contribution of body
\* j (1-based here) to the acceleration acc = <<ax, ay, az>> of body i
Contribution(bs, i, j, acc) ==
    LET dx == Sub(bs[j].x, bs[i].x)
        dy == Sub(bs[j].y, bs[i].y)
        dz == Sub(bs[j].z, bs[i].z)
        r_sq == Add(Add(Mul(dx, dx), Mul(dy, dy)), Mul(dz, dz))
        r == Sqrt(r_sq)
        r_cubed == Mul(r_sq, r)
        factor == Div(Mul(D(GRAV), bs[j].mass), r_cubed)
    IN  << Add(acc[1], Mul(factor, dx)),
           Add(acc[2], Mul(factor, dy)),
           Add(acc[3], Mul(factor, dz)) >>

RECURSIVE AccLoop_self(_, _, _, _)
\* the loop without the test j == i
AccLoop_self(bs, i, j, acc) ==
    IF j > Len(bs) THEN acc
    ELSE AccLoop_self(bs, i, j + 1, Contribution(bs, i, j, acc))

RECURSIVE AccLoop(_, _, _, _)
AccLoop(bs, i, j, acc) ==
    IF j > Len(bs) THEN acc
    ELSE IF j = i THEN AccLoop(bs, i, j + 1, acc)
    ELSE AccLoop(bs, i, j + 1, Contribution(bs, i, j, acc))

\* an evaluation that also keeps the acceleration it replaces as the
\* previous one
compute_acceleration_shift(bs, i) ==
    LET acc == AccLoop(bs, i, 1, << D(0), D(0), D(0) >>)
    IN  [bs EXCEPT ![i].ax_old = bs[i].ax, ![i].ay_old = bs[i].ay,
                   ![i].az_old = bs[i].az,
                   ![i].ax = acc[1], ![i].ay = acc[2], ![i].az = acc[3]]

compute_acceleration(bs, i) ==
    LET acc == AccLoop(bs, i, 1, << D(0), D(0), D(0) >>)
    IN  [bs EXCEPT ![i].ax = acc[1], ![i].ay = acc[2], ![i].az = acc[3]]

RECURSIVE AllAccLoop(_, _)
AllAccLoop(bs, i) ==
    IF i > Len(bs) THEN bs
    ELSE AllAccLoop(compute_acceleration(bs, i), i + 1)

compute_all_accelerations(bs) == AllAccLoop(bs, 1)

(***************************************************************************)
(* Diagnostics                                                             *)
(***************************************************************************)
RECURSIVE PotentialLoop(_, _, _, _)
\* the inner loop of calculate_total_energy, j from i+1
PotentialLoop(bs, i, j, potential) ==
    IF j > Len(bs) THEN potential
    ELSE LET dx == Sub(bs[j].x, bs[i].x)
             dy == Sub(bs[j].y, bs[i].y)
             dz == Sub(bs[j].z, bs[i].z)
             r == Sqrt(Add(Add(Mul(dx, dx), Mul(dy, dy)), Mul(dz, dz)))
             term == Div(Mul(Mul(D(GRAV), bs[i].mass), bs[j].mass), r)
         IN  PotentialLoop(bs, i, j + 1, Sub(potential, term))

RECURSIVE PotentialLoop_all(_, _, _, _)
\* an inner loop over every j but i
PotentialLoop_all(bs, i, j, potential) ==
    IF j > Len(bs) THEN potential
    ELSE IF j = i THEN PotentialLoop_all(bs, i, j + 1, potential)
    ELSE LET dx == Sub(bs[j].x, bs[i].x)
             dy == Sub(bs[j].y, bs[i].y)
             dz == Sub(bs[j].z, bs[i].z)
             r == Sqrt(Add(Add(Mul(dx, dx), Mul(dy, dy)), Mul(dz, dz)))
             term == Div(Mul(Mul(D(GRAV), bs[i].mass), bs[j].mass), r)
         IN  PotentialLoop_all(bs, i, j + 1, Sub(potential, term))

RECURSIVE EnergyLoop_ordered(_, _, _, _)
\* the energy with the pair (i, j) counted for i and again for j
EnergyLoop_ordered(bs, i, kinetic, potential) ==
    IF i > Len(bs) THEN Add(kinetic, potential)
    ELSE LET v_sq == Add(Add(Mul(bs[i].vx, bs[i].vx), Mul(bs[i].vy, bs[i].vy)),
                         Mul(bs[i].vz, bs[i].vz))
             k == Add(kinetic, Mul(Half(bs[i].mass), v_sq))
         IN  EnergyLoop_ordered(bs, i + 1, k, PotentialLoop_all(bs, i, 1, potential))

RECURSIVE EnergyLoop(_, _, _, _)
EnergyLoop(bs, i, kinetic, potential) ==
    IF i > Len(bs) THEN Add(kinetic, potential)
    ELSE LET v_sq == Add(Add(Mul(bs[i].vx, bs[i].vx), Mul(bs[i].vy, bs[i].vy)),
                         Mul(bs[i].vz, bs[i].vz))
             k == Add(kinetic, Mul(Half(bs[i].mass), v_sq))
         IN  EnergyLoop(bs, i + 1, k, PotentialLoop(bs, i, i + 1, potential))

calculate_total_energy(bs) == EnergyLoop(bs, 1, D(0), D(0))

(***************************************************************************)
(* The four loops of step                                                  *)
(***************************************************************************)
\* the sequence f, evaluated once (a loop over the bodies has run to its end)
Done(f) == f \o << >>

StoreOldAccelerations(bs) ==
    Done([k \in 1..Len(bs) |->
        [bs[k] EXCEPT !.ax_old = bs[k].ax, !.ay_old = bs[k].ay, !.az_old = bs[k].az]])

\* x + v*dt + 0.5*a*dt*dt
NewPosition(x, v, a, dt) == Add(x, Add(Mul(v, dt), Mul(Mul(Half(a), dt), dt)))

UpdatePositions(bs, dt) ==
    Done([k \in 1..Len(bs) |->
        [bs[k] EXCEPT !.x = NewPosition(bs[k].x, bs[k].vx, bs[k].ax, dt),
                      !.y = NewPosition(bs[k].y, bs[k].vy, bs[k].ay, dt),
                      !.z = NewPosition(bs[k].z, bs[k].vz, bs[k].az, dt)]])

\* a velocity update from the new acceleration alone
NewVelocity_forward(v, a_old, a, dt) == Add(v, Mul(a, dt))

\* v + 0.5*(a_old + a)*dt
NewVelocity(v, a_old, a, dt) == Add(v, Mul(Half(Add(a_old, a)), dt))

UpdateVelocities(bs, dt) ==
    Done([k \in 1..Len(bs) |->
        [bs[k] EXCEPT !.vx = NewVelocity(bs[k].vx, bs[k].ax_old, bs[k].ax, dt),
                      !.vy = NewVelocity(bs[k].vy, bs[k].ay_old, bs[k].ay, dt),
                      !.vz = NewVelocity(bs[k].vz, bs[k].az_old, bs[k].az, dt)]])

\* step with the velocity update placed before the force evaluation
StepBodies_stale(bs, dt) ==
    compute_all_accelerations(
        UpdateVelocities(UpdatePositions(StoreOldAccelerations(bs), dt), dt))

\* a step that afterwards removes the bodies whose acceleration is not finite
StepBodies_drop(bs, dt) ==
    SelectSeq(UpdateVelocities(
                  compute_all_accelerations(
                      UpdatePositions(StoreOldAccelerations(bs), dt)), dt),
              LAMBDA b : IsFinite(b.ax) /\ IsFinite(b.ay) /\ IsFinite(b.az))

RECURSIVE FusedLoop(_, _, _)
\* one loop that moves body k, evaluates its acceleration and updates its
\* velocity before it turns to body k + 1
FusedLoop(bs, dt, k) ==
    IF k > Len(bs) THEN bs
    ELSE LET b == bs[k]
             moved == [bs EXCEPT ![k] =
                          [b EXCEPT !.ax_old = b.ax, !.ay_old = b.ay, !.az_old = b.az,
                                    !.x = NewPosition(b.x, b.vx, b.ax, dt),
                                    !.y = NewPosition(b.y, b.vy, b.ay, dt),
                                    !.z = NewPosition(b.z, b.vz, b.az, dt)]]
             forced == compute_acceleration(moved, k)
             f == forced[k]
         IN  FusedLoop([forced EXCEPT ![k] =
                           [f EXCEPT !.vx = NewVelocity(f.vx, f.ax_old, f.ax, dt),
                                     !.vy = NewVelocity(f.vy, f.ay_old, f.ay, dt),
                                     !.vz = NewVelocity(f.vz, f.az_old, f.az, dt)]],
                       dt, k + 1)

\* step as a single loop over the bodies
StepBodies_fused(bs, dt) == FusedLoop(bs, dt, 1)

\* the body store after step(dt): the four loops, one after the other
StepBodies(bs, dt) ==
    UpdateVelocities(
        compute_all_accelerations(UpdatePositions(StoreOldAccelerations(bs), dt)),
        dt)

(***************************************************************************)
(* State                                                                   *)
(***************************************************************************)
VARIABLES
    bodies,             \* SolarSystem::bodies
    simulation_time,    \* SolarSystem::simulation_time
    total_energy,       \* SolarSystem::total_energy
    initial_energy,     \* SolarSystem::initial_energy
    step_count,         \* SolarSystem::step_count
    pc,                 \* "idle", or "simulate" inside the loop of simulate
    sim_i,              \* simulate: the loop index i
    sim_steps,          \* simulate: the local steps
    sim_dt,             \* simulate: the parameter dt
    result,             \* what the last query returned, as a sequence
    call,               \* the call in progress or last completed, with its arguments
    pre,                \* the instance's fields when that call began
    pushed,             \* per body, every sample pushed since the store was filled
    cancel_requested,   \* the caller asked the running simulate to stop
    calls               \* number of API calls made

vars == << bodies, simulation_time, total_energy, initial_energy, step_count,
           pc, sim_i, sim_steps, sim_dt, result, call, pre, pushed,
           cancel_requested, calls >>

\* the fields of the instance
Fields ==
    [bodies |-> bodies, simulation_time |-> simulation_time,
     total_energy |-> total_energy, initial_energy |-> initial_energy,
     step_count |-> step_count]

\* inputs of the calls
Dts == {-1, 0, 1, 2}
SimArgs == { <<0, 1>>, <<3, 2>>, <<11, 1>>, <<2, 0>>, <<2, -1>>, <<-2, -1>> }
BodyIndexes == {-1, 0, 2, 3, 4, 11}

IntMax == 2147483647
IntMin == -IntMax - 1

\* a cast that rounds the quotient up
CastToInt_up(q) ==
    IF IsFinite(q) THEN {q.v + 1} ELSE {IntMin}

\* static_cast<int>(q): truncation when q is finite; undefined behaviour when
\* it is not, where the builds produce INT_MIN (x86), or 0 for NaN and the
\* saturated value for an infinity (AArch64)
CastToInt(q) ==
    IF IsFinite(q) THEN {q.v}
    ELSE IF q.cls = "nan" THEN {IntMin, 0}
    ELSE IF q.v > 0 THEN {IntMin, IntMax}
    ELSE {IntMin}

Call(op, duration, dt, arg) == [op |-> op, duration |-> duration, dt |-> dt, arg |-> arg]

(***************************************************************************)
(* gamekit: Animation (src/minstall/gamekit/gamekit.cpp)                   *)
(***************************************************************************)
VARIABLES
    animation,          \* an Animation: its fields, as a record
    anim_call           \* the last call made on it and what it returned

anim_vars == << animation, anim_call >>

\* largest |elapsed_time| followed
MaxElapsed == 3

\* a >= b on doubles: false when either is NaN
Geq(a, b) ==
    IF a.cls = "nan" \/ b.cls = "nan" THEN FALSE
    ELSE IF a.cls = "inf" THEN a.v > 0 \/ (b.cls = "inf" /\ b.v < 0)
    ELSE IF b.cls = "inf" THEN b.v < 0
    ELSE a.v >= b.v

\* Animation::Animation(frames, frame_duration, loop)
NewAnimation(frames, frame_duration, loop) ==
    [frames |-> frames, frame_duration |-> frame_duration, looping |-> loop,
     current_frame |-> 0, elapsed_time |-> D(0), finished |-> FALSE]

\* Animation::Animation(): no frames, the default duration (0.1 in the
\* source, 1 in the model's unit), looping
DefaultAnimation == NewAnimation(<< >>, D(1), TRUE)

\* an update that wraps or stops one frame too late
Updated_late(a, delta) ==
    IF a.finished /\ ~a.looping THEN a
    ELSE IF a.frames = << >> THEN a
    ELSE LET elapsed == Add(a.elapsed_time, delta)
         IN  IF Geq(elapsed, a.frame_duration)
             THEN IF a.current_frame + 1 > Len(a.frames)
                  THEN IF a.looping
                       THEN [a EXCEPT !.elapsed_time = D(0), !.current_frame = 0]
                       ELSE [a EXCEPT !.elapsed_time = D(0),
                                      !.current_frame = Len(a.frames) - 1,
                                      !.finished = TRUE]
                  ELSE [a EXCEPT !.elapsed_time = D(0),
                                 !.current_frame = a.current_frame + 1]
             ELSE [a EXCEPT !.elapsed_time = elapsed]

\* the Animation after update(delta)
Updated(a, delta) ==
    IF a.finished /\ ~a.looping THEN a
    ELSE IF a.frames = << >> THEN a
    ELSE LET elapsed == Add(a.elapsed_time, delta)
         IN  IF Geq(elapsed, a.frame_duration)
             THEN IF a.current_frame + 1 >= Len(a.frames)
                  THEN IF a.looping
                       THEN [a EXCEPT !.elapsed_time = D(0), !.current_frame = 0]
                       ELSE [a EXCEPT !.elapsed_time = D(0),
                                      !.current_frame = Len(a.frames) - 1,
                                      !.finished = TRUE]
                  ELSE [a EXCEPT !.elapsed_time = D(0),
                                 !.current_frame = a.current_frame + 1]
             ELSE [a EXCEPT !.elapsed_time = elapsed]

\* the values frames[current_frame] may read: the element when the index is
\* in range, anything when it is not
FrameValues == {0, 7, 8, 9}
FrameRead(a) ==
    IF a.current_frame \in 0..(Len(a.frames) - 1)
    THEN {a.frames[a.current_frame + 1]}
    ELSE FrameValues

\* no call was made on the Animation yet
NoAnimCall == [op |-> "none", value |-> 0]

\* SolarSystem::SolarSystem()
NewSolarSystem ==
    /\ bodies = << >>
    /\ simulation_time = D(0)
    /\ total_energy = D(0)
    /\ initial_energy = D(0)
    /\ step_count = 0
    /\ pc = "idle"
    /\ sim_i = 0
    /\ sim_steps = 0
    /\ sim_dt = 0
    /\ result = << >>
    /\ call = Call("none", 0, 0, 0)
    /\ pre = [bodies |-> << >>, simulation_time |-> D(0), total_energy |-> D(0),
              initial_energy |-> D(0), step_count |-> 0]
    /\ pushed = << >>
    /\ cancel_requested = FALSE
    /\ calls = 0

\* a SolarSystem has been constructed; the Animation beside it takes no call
Init ==
    /\ NewSolarSystem
    /\ animation = DefaultAnimation
    /\ anim_call = NoAnimCall

\* a new call may begin
CanCall == pc = "idle" /\ calls < MaxCalls

BeginCall(op, duration, dt, arg) ==
    /\ call' = Call(op, duration, dt, arg)
    /\ pre' = Fields
    /\ calls' = calls + 1
    /\ UNCHANGED anim_vars

NoLoop == UNCHANGED << pc, sim_i, sim_steps, sim_dt, cancel_requested >>

\* the store init_real_solar_system builds: the table, then the accelerations
\* and their copies
SeededBodies ==
    StoreOldAccelerations(compute_all_accelerations(BodyTable))

\* an initialization that leaves the step counter as it is
init_real_solar_system_keeps_count ==
    /\ CanCall
    /\ BeginCall("init", 0, 0, 0)
    /\ bodies' = SeededBodies
    /\ simulation_time' = D(0)
    /\ initial_energy' = calculate_total_energy(SeededBodies)
    /\ total_energy' = calculate_total_energy(SeededBodies)
    /\ pushed' = [k \in 1..Len(BodyTable) |-> << >>]
    /\ NoLoop
    /\ UNCHANGED << step_count, result >>

init_real_solar_system ==
    /\ CanCall
    /\ BeginCall("init", 0, 0, 0)
    /\ bodies' = SeededBodies
    /\ simulation_time' = D(0)
    /\ step_count' = 0
    /\ initial_energy' = calculate_total_energy(SeededBodies)
    /\ total_energy' = calculate_total_energy(SeededBodies)
    /\ pushed' = [k \in 1..Len(BodyTable) |-> << >>]
    /\ NoLoop
    /\ UNCHANGED result

step(dt) ==
    /\ CanCall
    /\ BeginCall("step", 0, dt, 0)
    /\ bodies' = StepBodies(bodies, D(dt))
    /\ simulation_time' = Add(simulation_time, D(dt))
    /\ step_count' = step_count + 1
    /\ NoLoop
    /\ UNCHANGED << total_energy, initial_energy, result, pushed >>

\* simulate, up to the loop
simulate(duration, dt) ==
    /\ CanCall
    /\ BeginCall("simulate", duration, dt, 0)
    /\ \E steps \in CastToInt(Div(D(duration), D(dt))) :
          /\ sim_steps' = steps
          /\ sim_i' = 0
          /\ sim_dt' = dt
          /\ pc' = "simulate"
    /\ cancel_requested' = FALSE
    /\ UNCHANGED << bodies, simulation_time, total_energy, initial_energy,
                    step_count, result, pushed >>

\* sampling once i + 1 steps of the call are a multiple of the stride
Sampled_after(bs, i) ==
    IF (i + 1) % SampleStride = 0
    THEN Done([k \in 1..Len(bs) |-> add_trajectory_point(bs[k])])
    ELSE bs

\* sampling by the number of steps taken since setup instead of the loop index
Sampled_by_count(bs, i) ==
    IF step_count % SampleStride = 0
    THEN Done([k \in 1..Len(bs) |-> add_trajectory_point(bs[k])])
    ELSE bs

\* the bodies after the sampling of iteration i
Sampled(bs, i) ==
    IF i % SampleStride = 0
    THEN Done([k \in 1..Len(bs) |-> add_trajectory_point(bs[k])])
    ELSE bs

\* one iteration of the loop of simulate
simulate_iteration ==
    /\ pc = "simulate"
    /\ sim_i < sim_steps
    /\ sim_i < MaxIterations
    /\ LET stepped == StepBodies(bodies, D(sim_dt))
       IN  /\ bodies' = Sampled(stepped, sim_i)
           /\ pushed' = IF sim_i % SampleStride = 0
                        THEN [k \in 1..Len(stepped) |->
                                 Append(pushed[k],
                                        << stepped[k].x, stepped[k].y, stepped[k].z >>)]
                        ELSE pushed
    /\ simulation_time' = Add(simulation_time, D(sim_dt))
    /\ step_count' = step_count + 1
    /\ sim_i' = sim_i + 1
    /\ UNCHANGED << total_energy, initial_energy, pc, sim_steps, sim_dt, result,
                    call, pre, cancel_requested, calls, anim_vars >>

\* a return of simulate that takes the energy it computed as the new baseline
simulate_return_rebase ==
    /\ pc = "simulate"
    /\ ~(sim_i < sim_steps)
    /\ total_energy' = calculate_total_energy(bodies)
    /\ initial_energy' = calculate_total_energy(bodies)
    /\ pc' = "idle"
    /\ UNCHANGED << bodies, simulation_time, step_count, sim_i,
                    sim_steps, sim_dt, result, call, pre, pushed,
                    cancel_requested, calls, anim_vars >>

\* the loop of simulate ends
simulate_return ==
    /\ pc = "simulate"
    /\ ~(sim_i < sim_steps)
    /\ total_energy' = calculate_total_energy(bodies)
    /\ pc' = "idle"
    /\ UNCHANGED << bodies, simulation_time, initial_energy, step_count, sim_i,
                    sim_steps, sim_dt, result, call, pre, pushed,
                    cancel_requested, calls, anim_vars >>

\* the caller asks a run that has iterations left to stop; simulate has no
\* parameter or field to receive the request
request_cancel ==
    /\ pc = "simulate"
    /\ sim_i < sim_steps
    /\ ~cancel_requested
    /\ cancel_requested' = TRUE
    /\ UNCHANGED << bodies, simulation_time, total_energy, initial_energy,
                    step_count, pc, sim_i, sim_steps, sim_dt, result, call, pre,
                    pushed, calls, anim_vars >>

RECURSIVE Flatten_newest_first(_, _, _, _)
\* the loop of get_trajectory putting each sample in front of the earlier ones
Flatten_newest_first(b, k, traj, au) ==
    IF k > Len(b.trajectory_x) THEN traj
    ELSE Flatten_newest_first(b, k + 1,
                 << Div(b.trajectory_x[k], au),
                    Div(b.trajectory_y[k], au),
                    Div(b.trajectory_z[k], au) >> \o traj,
                 au)

RECURSIVE Flatten(_, _, _, _)
\* the loop of get_trajectory over the samples from k on
Flatten(b, k, traj, au) ==
    IF k > Len(b.trajectory_x) THEN traj
    ELSE Flatten(b, k + 1,
                 traj \o << Div(b.trajectory_x[k], au),
                            Div(b.trajectory_y[k], au),
                            Div(b.trajectory_z[k], au) >>,
                 au)

\* a lookup by the id field instead of the position in the store
TrajectoryOf_by_id(bs, body_index) ==
    IF \E k \in 1..Len(bs) : bs[k].id = body_index
    THEN Flatten(bs[CHOOSE k \in 1..Len(bs) : bs[k].id = body_index], 1, << >>, D(AU))
    ELSE << >>

\* an index outside the store answered with the buffer of the nearest body
TrajectoryOf_clamped(bs, body_index) ==
    IF bs = << >> THEN << >>
    ELSE IF body_index < 0 THEN Flatten(bs[1], 1, << >>, D(AU))
    ELSE IF body_index >= Len(bs) THEN Flatten(bs[Len(bs)], 1, << >>, D(AU))
    ELSE Flatten(bs[body_index + 1], 1, << >>, D(AU))

\* the value get_trajectory(body_index) returns for the store bs
TrajectoryOf(bs, body_index) ==
    IF body_index < 0 \/ body_index >= Len(bs) THEN << >>
    ELSE Flatten(bs[body_index + 1], 1, << >>, D(AU))

Query(op, arg, value) ==
    /\ CanCall
    /\ BeginCall(op, 0, 0, arg)
    /\ result' = value
    /\ NoLoop
    /\ UNCHANGED << bodies, simulation_time, total_energy, initial_energy,
                    step_count, pushed >>

get_trajectory(body_index) ==
    Query("get_trajectory", body_index, TrajectoryOf(bodies, body_index))

get_total_energy == Query("get_total_energy", 0, << total_energy >>)

EnergyError(total, initial) == Abs(Div(Sub(total, initial), initial))

get_energy_error ==
    Query("get_energy_error", 0, << EnergyError(total_energy, initial_energy) >>)

Next ==
    \/ init_real_solar_system
    \/ \E dt \in Dts : step(dt)
    \/ \E a \in SimArgs : simulate(a[1], a[2])
    \/ simulate_iteration
    \/ simulate_return
    \/ request_cancel
    \/ \E body_index \in BodyIndexes : get_trajectory(body_index)
    \/ get_total_energy
    \/ get_energy_error

Spec == Init /\ [][Next]_vars

\* the control of the loop of simulate: while i < steps an iteration runs
\* and i advances, and once it is not the call returns
LoopControl ==
    /\ pc = "simulate"
    /\ \/ sim_i < sim_steps /\ sim_i < MaxIterations
          /\ sim_i' = sim_i + 1 /\ pc' = pc
       \/ ~(sim_i < sim_steps) /\ pc' = "idle" /\ sim_i' = sim_i

\* a running simulate keeps running: nothing suspends the loop
LiveSpec == Spec /\ WF_<< pc, sim_i >>(LoopControl)

(***************************************************************************)
(* Animation: the calls                                                    *)
(***************************************************************************)
\* arguments of the constructor and of the calls
FrameLists == {<< >>, << 7 >>, << 7, 8, 9 >>}
Durations == {D(0), D(2), D(3), NaN}
Deltas == {D(-1), D(1), D(2), NaN}

\* elapsed_time is followed up to MaxElapsed either way
Followed(a) ==
    IsFinite(a.elapsed_time) => AbsInt(a.elapsed_time.v) <= MaxElapsed

AnimCall(op, value) == [op |-> op, value |-> value]

update(delta) ==
    /\ Followed(Updated(animation, delta))
    /\ animation' = Updated(animation, delta)
    /\ anim_call' = AnimCall("update", 0)
    /\ UNCHANGED vars

getCurrentFrame ==
    /\ \E value \in IF animation.frames = << >> THEN {0} ELSE FrameRead(animation) :
          anim_call' = AnimCall("getCurrentFrame", value)
    /\ UNCHANGED << animation, vars >>

reset ==
    /\ animation' = [animation EXCEPT !.current_frame = 0,
                                      !.elapsed_time = D(0),
                                      !.finished = FALSE]
    /\ anim_call' = AnimCall("reset", 0)
    /\ UNCHANGED vars

setLooping(loop) ==
    /\ animation' = [animation EXCEPT !.looping = loop]
    /\ anim_call' = AnimCall("setLooping", 0)
    /\ UNCHANGED vars

isFinished ==
    /\ anim_call' = AnimCall("isFinished", IF animation.finished THEN 1 ELSE 0)
    /\ UNCHANGED << animation, vars >>

setFrameDuration(duration) ==
    /\ animation' = [animation EXCEPT !.frame_duration = duration]
    /\ anim_call' = AnimCall("setFrameDuration", 0)
    /\ UNCHANGED vars

\* an Animation has been constructed, by either constructor; the SolarSystem
\* beside it takes no call
AnimInit ==
    /\ NewSolarSystem
    /\ \/ animation = DefaultAnimation
       \/ \E frames \in FrameLists : \E frame_duration \in Durations :
             \E loop \in BOOLEAN :
                 animation = NewAnimation(frames, frame_duration, loop)
    /\ anim_call = NoAnimCall

AnimNext ==
    \/ \E delta \in Deltas : update(delta)
    \/ getCurrentFrame
    \/ reset
    \/ \E loop \in BOOLEAN : setLooping(loop)
    \/ isFinished
    \/ \E duration \in Durations : setFrameDuration(duration)

AnimSpec == AnimInit /\ [][AnimNext]_anim_vars

(***************************************************************************)
(* Claims                                                                  *)
(***************************************************************************)
Min(a, b) == IF a < b THEN a ELSE b
LastN(s, n) == SubSeq(s, Len(s) - n + 1, Len(s))
\* the samples a body's three coordinate buffers hold
Samples(b) ==
    Done([n \in 1..Len(b.trajectory_x) |->
            << b.trajectory_x[n], b.trajectory_y[n], b.trajectory_z[n] >>])
BodyIds == 1..Len(bodies)
Completed(op) == pc = "idle" /\ call.op = op

\* C1: a body's trajectory buffer never holds more than trajectory_max_points
\* samples, and after m pushes into a buffer of capacity c it holds exactly
\* the last min(m, c) pushed samples, oldest first.
C1_TrajectoryBounded ==
    \A k \in BodyIds :
        LET b == bodies[k]
            c == b.trajectory_max_points
        IN  /\ Len(b.trajectory_x) <= c
            /\ Len(b.trajectory_y) = Len(b.trajectory_x)
            /\ Len(b.trajectory_z) = Len(b.trajectory_x)
            /\ Samples(b) = LastN(pushed[k], Min(Len(pushed[k]), c))

\* a body of capacity 2 or more has been pushed more samples than it keeps
C1_Witness ==
    \E k \in BodyIds :
        /\ bodies[k].trajectory_max_points >= 2
        /\ Len(pushed[k]) > bodies[k].trajectory_max_points
        /\ pushed[k][1] # pushed[k][2]

\* the dt of the step a transition performs, when it performs one
StepTaken == step_count' = step_count + 1
StepDt == IF pc = "simulate" THEN sim_dt ELSE call'.dt

\* C2: every step (a direct call, or an iteration of simulate) is the
\* velocity-Verlet update: new position = old position + old velocity*dt +
\* 0.5*(old acceleration)*dt^2, new acceleration = the force evaluation at
\* the new positions, new velocity = old velocity + 0.5*(old acceleration +
\* new acceleration)*dt, stored previous acceleration = old acceleration.
C2_VelocityVerlet ==
    [][StepTaken =>
        LET dt == D(StepDt)
            forces == compute_all_accelerations(bodies')
        IN  /\ Len(bodies') = Len(bodies)
            /\ \A k \in BodyIds :
                LET o == bodies[k]
                    n == bodies'[k]
                IN  /\ n.x = Add(o.x, Add(Mul(o.vx, dt), Mul(Mul(Half(o.ax), dt), dt)))
                    /\ n.y = Add(o.y, Add(Mul(o.vy, dt), Mul(Mul(Half(o.ay), dt), dt)))
                    /\ n.z = Add(o.z, Add(Mul(o.vz, dt), Mul(Mul(Half(o.az), dt), dt)))
                    /\ << n.ax, n.ay, n.az >>
                         = << forces[k].ax, forces[k].ay, forces[k].az >>
                    /\ n.vx = Add(o.vx, Mul(Half(Add(o.ax, n.ax)), dt))
                    /\ n.vy = Add(o.vy, Mul(Half(Add(o.ay, n.ay)), dt))
                    /\ n.vz = Add(o.vz, Mul(Half(Add(o.az, n.az)), dt))
                    /\ << n.ax_old, n.ay_old, n.az_old >> = << o.ax, o.ay, o.az >>
    ]_vars

\* a step with dt = 1 has moved a body and changed its acceleration and its
\* velocity, all finite
C2_Witness ==
    /\ Completed("step")
    /\ call.dt = 1
    /\ \E k \in BodyIds :
          /\ IsFinite(bodies[k].ax)
          /\ bodies[k].ax # bodies[k].ax_old
          /\ bodies[k].ax_old # D(0)
          /\ bodies[k].x # pre.bodies[k].x
          /\ bodies[k].vx # pre.bodies[k].vx

\* C3: step or simulate called with dt <= 0 changes no body state, elapsed
\* time, step counter or trajectory buffer (the call is rejected).
C3_NonPositiveDtRejected ==
    (pc = "idle" /\ call.op \in {"step", "simulate"} /\ call.dt <= 0)
        => /\ bodies = pre.bodies
           /\ simulation_time = pre.simulation_time
           /\ step_count = pre.step_count

\* every component of a body's position, velocity and acceleration is finite
FiniteBody(b) ==
    \A v \in {b.x, b.y, b.z, b.vx, b.vy, b.vz, b.ax, b.ay, b.az} : IsFinite(v)

\* C4: the force evaluator never divides by a zero r^3, so no reachable
\* state holds a non-finite acceleration, velocity or position.
C4_NoNonFiniteState == \A k \in BodyIds : FiniteBody(bodies[k])

\* a <= b for finite doubles
Leq(a, b) == IsFinite(a) /\ IsFinite(b) /\ a.v <= b.v

\* C5: without a re-initialization, elapsed time and the step counter never
\* decrease.
C5_ClockMonotone ==
    [][~(call'.op = "init" /\ calls' # calls)
        => /\ Leq(simulation_time, simulation_time')
           /\ step_count <= step_count'
    ]_vars

\* a run of simulate called with dt > 0 and duration >= 0
PositiveRun == call.op = "simulate" /\ call.dt > 0 /\ call.duration >= 0

Pushed(old, new) ==
    LET cap == new.trajectory_max_points
        Keep(s) == IF Len(s) > cap THEN SubSeq(s, 2, Len(s)) ELSE s
    IN  /\ new.trajectory_x = Keep(Append(old.trajectory_x, new.x))
        /\ new.trajectory_y = Keep(Append(old.trajectory_y, new.y))
        /\ new.trajectory_z = Keep(Append(old.trajectory_z, new.z))

SameBuffers(old, new) ==
    /\ new.trajectory_x = old.trajectory_x
    /\ new.trajectory_y = old.trajectory_y
    /\ new.trajectory_z = old.trajectory_z

\* the iteration of simulate with loop index sim_i runs
IterationRuns == pc = "simulate" /\ sim_i' = sim_i + 1

\* strides a caller might ask for
CallerStrides == {1, 5, 10}

\* C7 as stated: whatever stride k the caller chooses, an iteration of the
\* batch run pushes one sample per body exactly when its index is a multiple
\* of k.
C7_CallerStride ==
    [][IterationRuns =>
        \A k \in CallerStrides :
            \A b \in BodyIds :
                IF sim_i % k = 0
                THEN Pushed(bodies[b], bodies'[b])
                ELSE SameBuffers(bodies[b], bodies'[b])
    ]_vars

\* C7 as amended: the stride is the fixed 10 of simulate: an iteration pushes
\* one sample (the position after its step) into every body's buffer exactly
\* when its loop index i satisfies i % 10 = 0, and pushes none otherwise.
C7_FixedStride ==
    [][IterationRuns =>
        \A b \in BodyIds :
            IF sim_i % 10 = 0
            THEN Pushed(bodies[b], bodies'[b])
            ELSE SameBuffers(bodies[b], bodies'[b])
    ]_vars

\* a run has passed the iterations 0..10: two samples were pushed, the
\* second one after nine iterations without a push
C7_Witness ==
    /\ pc = "simulate"
    /\ sim_i = 11
    /\ \E b \in BodyIds :
          /\ Len(bodies[b].trajectory_x) = 2
          /\ bodies[b].trajectory_x[2] = bodies[b].x
          /\ bodies[b].trajectory_x[1] # bodies[b].trajectory_x[2]

\* C8: once the caller has requested cancellation of a running batch, the
\* run executes no further step.
C8_CancelStopsRun ==
    [][(pc = "simulate" /\ cancel_requested) => step_count' = step_count]_vars

\* C9: the reported total energy is the mechanical energy of the current
\* positions and velocities, and the reported relative error is
\* |that energy - baseline| / |baseline|.
C9_EnergyIsCurrent ==
    LET energy == calculate_total_energy(bodies)
    IN  /\ Completed("get_total_energy") => result = << energy >>
        /\ Completed("get_energy_error")
             => result = << Div(Abs(Sub(energy, initial_energy)), Abs(initial_energy)) >>

\* the buffer of body b as the query returns it: x, y, z of each sample in
\* AU, oldest first
IsBufferOf(traj, b) ==
    /\ Len(traj) = 3 * Len(b.trajectory_x)
    /\ \A n \in 1..Len(b.trajectory_x) :
          /\ traj[3 * n - 2] = Div(b.trajectory_x[n], D(AU))
          /\ traj[3 * n - 1] = Div(b.trajectory_y[n], D(AU))
          /\ traj[3 * n] = Div(b.trajectory_z[n], D(AU))

\* C10 as stated: the trajectory query returns the buffer of the body whose
\* id field equals the argument, for every body of the store.
C10_TrajectoryById ==
    Completed("get_trajectory")
        => \A k \in BodyIds :
              bodies[k].id = call.arg => IsBufferOf(result, bodies[k])

\* C10 as amended: the argument is a 0-based position in the store: the
\* query returns the buffer of the body stored at that position, whatever
\* its id.
C10_TrajectoryByIndex ==
    Completed("get_trajectory")
        => \A k \in BodyIds :
              k = call.arg + 1 => IsBufferOf(result, bodies[k])

\* the query was made with the id of a body stored elsewhere and returned
\* the non-empty buffer of the body stored at that position
C10_Witness ==
    /\ Completed("get_trajectory")
    /\ call.arg + 1 \in BodyIds
    /\ bodies[call.arg + 1].id # call.arg
    /\ \E k \in BodyIds : bodies[k].id = call.arg
    /\ result # << >>
    /\ IsBufferOf(result, bodies[call.arg + 1])

\* the argument of the completed trajectory query is the id of no body
UnknownId == \A k \in BodyIds : bodies[k].id # call.arg

\* the argument of the completed trajectory query is no position of the store
OutOfRange == call.arg < 0 \/ call.arg >= Len(bodies)

\* C11 as stated: a trajectory query naming an id that no body has does not
\* return normally with an empty result, and leaves all state unchanged.
C11_UnknownIdFails ==
    (Completed("get_trajectory") /\ UnknownId)
        => result # << >> /\ Fields = pre

\* C11 as amended: a trajectory query whose argument is outside 0..count-1
\* returns normally with an empty result, and leaves all state unchanged.
C11_OutOfRangeEmpty ==
    (Completed("get_trajectory") /\ OutOfRange)
        => result = << >> /\ Fields = pre

\* the query was made past the end of a store whose last body holds
\* samples, and returned empty
C11_Witness ==
    /\ Completed("get_trajectory")
    /\ bodies # << >>
    /\ call.arg >= Len(bodies)
    /\ bodies[Len(bodies)].trajectory_x # << >>
    /\ result = << >>

\* the transition is a call of init_real_solar_system
ReInit == call'.op = "init" /\ calls' = calls + 1

\* C12: init_real_solar_system sets initial_energy to the total energy of the
\* bodies it has just built, and no other step of any call assigns it.
C12_BaselineFixed ==
    [][IF ReInit
       THEN initial_energy' = calculate_total_energy(bodies')
       ELSE initial_energy' = initial_energy
    ]_vars

\* a run has returned with an energy that has drifted from the baseline,
\* which is still the energy of the seeded store
C12_Witness ==
    /\ Completed("simulate")
    /\ step_count > pre.step_count
    /\ calculate_total_energy(bodies) # initial_energy
    /\ total_energy # initial_energy
    /\ initial_energy = calculate_total_energy(SeededBodies)

\* the ids of the bodies of a store, in the order of the store
IdsOf(bs) == Done([k \in 1..Len(bs) |-> bs[k].id])

\* C13: without a re-initialization no step of any call adds, removes or
\* reorders a body or changes an id: the sequence of ids stays the same.
C13_BodySetFixed ==
    [][~ReInit => IdsOf(bodies') = IdsOf(bodies)]_vars

\* a run with samples and a further call have passed over a seeded store,
\* the bodies have moved, and the store still holds the ids of the table
C13_Witness ==
    /\ pc = "idle"
    /\ call.op \in {"step", "simulate"}
    /\ step_count >= 2
    /\ IdsOf(bodies) = IdsOf(BodyTable)
    /\ Len(bodies) > 1
    /\ \E k \in BodyIds : bodies[k].x # BodyTable[k].x

\* the masses of the bodies of a store, in the order of the store
MassesOf(bs) == Done([k \in 1..Len(bs) |-> bs[k].mass])

\* C14: in every state every body's mass is a finite, strictly positive
\* number, and without a re-initialization no step of any call changes a
\* mass.
C14_MassPositiveFixed ==
    /\ [](\A k \in BodyIds : IsFinite(bodies[k].mass) /\ bodies[k].mass.v > 0)
    /\ [][~ReInit => MassesOf(bodies') = MassesOf(bodies)]_vars

\* steps of a run have gone over a seeded store, some of them leaving a
\* non-finite velocity behind, and the masses are those of the table
C14_Witness ==
    /\ Completed("simulate")
    /\ step_count >= 2
    /\ bodies # << >>
    /\ MassesOf(bodies) = MassesOf(BodyTable)
    /\ \E k \in BodyIds : ~IsFinite(bodies[k].vx)

\* two bodies of the store are at the same point, where the force evaluator
\* divides by r^3 = 0
Coincident(bs) ==
    \E i, j \in 1..Len(bs) :
        /\ i # j
        /\ bs[i].x = bs[j].x /\ bs[i].y = bs[j].y /\ bs[i].z = bs[j].z

\* the transition executes step(dt): a call of step, or an iteration of the
\* loop of simulate
StepRuns == (calls' = calls + 1 /\ call'.op = "step") \/ IterationRuns

\* the positions the force evaluator of that step is run on
Attempted == UpdatePositions(StoreOldAccelerations(bodies), D(StepDt))

\* the values a step leaves as they were when it changes nothing
Kinematics(b) ==
    << b.x, b.y, b.z, b.vx, b.vy, b.vz, b.ax, b.ay, b.az,
       b.ax_old, b.ay_old, b.az_old >>

StepRolledBack ==
    /\ \A k \in BodyIds : Kinematics(bodies'[k]) = Kinematics(bodies[k])
    /\ simulation_time' = simulation_time
    /\ step_count' = step_count

StepCompleted ==
    /\ \A k \in BodyIds :
          Kinematics(bodies'[k]) = Kinematics(StepBodies(bodies, D(StepDt))[k])
    /\ simulation_time' = Add(simulation_time, D(StepDt))
    /\ step_count' = step_count + 1

\* C15: a step that meets an error (dt <= 0, or two bodies at the same point
\* in the force evaluation) leaves every body's position, velocity,
\* acceleration and previous acceleration, the elapsed time and the step
\* counter as they were; any other step has completed all its phases.
C15_StepAtomic ==
    [][StepRuns =>
        IF StepDt <= 0 \/ Coincident(Attempted)
        THEN StepRolledBack
        ELSE StepCompleted
    ]_vars

\* the last call was not a query: every store the program reaches is first
\* reached in such a state, as a query changes none
StoreIsNew == call.op \notin {"get_trajectory", "get_total_energy", "get_energy_error"}

\* the largest number of steps taken forward and back
MaxReverse == 2

\* the time steps of a reversal
ReverseDts == {1, 2}

RECURSIVE Advance(_, _, _)
\* the store after n calls of step(dt)
Advance(bs, dt, n) ==
    IF n = 0 THEN bs ELSE Advance(StepBodies(bs, D(dt)), dt, n - 1)

\* the store with every body's velocity negated
Negated(bs) ==
    Done([k \in 1..Len(bs) |->
        [bs[k] EXCEPT !.vx = Neg(@), !.vy = Neg(@), !.vz = Neg(@)]])

\* n steps, the velocities negated, n more steps
RoundTrip(bs, dt, n) == Advance(Negated(Advance(bs, dt, n)), dt, n)

\* a value the grid halves without rounding, as a double halves any value
Halves(a) == IsFinite(a) /\ a.v % 2 = 0

\* the arithmetic of a step from this store is exact: everything is finite
\* and no halving of an acceleration rounds
ExactStore(bs) ==
    \A k \in 1..Len(bs) :
        /\ \A v \in {bs[k].x, bs[k].y, bs[k].z, bs[k].vx, bs[k].vy, bs[k].vz} :
              IsFinite(v)
        /\ \A a \in {bs[k].ax, bs[k].ay, bs[k].az} : Halves(a)

\* the arithmetic of the n steps from bs is exact
ExactPath(bs, dt, n) == \A m \in 0..n : ExactStore(Advance(bs, dt, m))

SamePositions(as, bs) ==
    \A k \in 1..Len(as) :
        as[k].x = bs[k].x /\ as[k].y = bs[k].y /\ as[k].z = bs[k].z

\* C18: from a store left by a completed call, n steps of dt, the negation
\* of every velocity and n more steps of dt bring every body back to its
\* position, whenever the arithmetic on the way is exact.
C18_TimeReversible ==
    (pc = "idle" /\ StoreIsNew /\ bodies # << >>)
        => \A dt \in ReverseDts : \A n \in 0..MaxReverse :
              ExactPath(bodies, dt, n)
                  => SamePositions(RoundTrip(bodies, dt, n), bodies)

\* a store from which two exact steps move a body under changing
\* accelerations, and from which the reversal brings it back
C18_Witness ==
    /\ pc = "idle"
    /\ bodies # << >>
    /\ \E dt \in ReverseDts :
          /\ ExactPath(bodies, dt, 2)
          /\ LET one == Advance(bodies, dt, 1)
                 two == Advance(bodies, dt, 2)
             IN  \E k \in BodyIds :
                    /\ two[k].x # bodies[k].x
                    /\ one[k].ax # bodies[k].ax
                    /\ two[k].ax # one[k].ax
                    /\ bodies[k].ax # D(0)
          /\ SamePositions(RoundTrip(bodies, dt, 2), bodies)

\* the acceleration of body k evaluated on the store bs
ForceOn(bs, k) == AccLoop(bs, k, 1, << D(0), D(0), D(0) >>)

\* C20: in every executed step the force evaluator reads the positions that
\* the position loop has given to all bodies, and the velocity loop reads
\* the accelerations that the evaluator has given to all bodies: each new
\* acceleration is the evaluation at the updated positions of every body,
\* made once, after the old acceleration was stored.
C20_PhaseOrder ==
    [][StepRuns =>
        \A moved \in {Attempted} :
            \A k \in BodyIds :
                \A force \in {ForceOn(moved, k)} :
                    LET dt == D(StepDt)
                        o == bodies[k]
                        n == bodies'[k]
                    IN  /\ << n.x, n.y, n.z >> = << moved[k].x, moved[k].y, moved[k].z >>
                        /\ << n.ax, n.ay, n.az >> = force
                        /\ << n.ax_old, n.ay_old, n.az_old >> = << o.ax, o.ay, o.az >>
                        /\ n.vx = NewVelocity(o.vx, o.ax, force[1], dt)
                        /\ n.vy = NewVelocity(o.vy, o.ay, force[2], dt)
                        /\ n.vz = NewVelocity(o.vz, o.az, force[3], dt)
    ]_vars

\* the store in which the bodies up to k are where the completed step has
\* put them and the bodies after k are where they were before it
MovedUpTo(k) ==
    Done([j \in BodyIds |->
        IF j <= k THEN bodies[j]
        ELSE [bodies[j] EXCEPT !.x = pre.bodies[j].x, !.y = pre.bodies[j].y,
                               !.z = pre.bodies[j].z]])

\* a step has completed in which the order matters: the acceleration of a
\* body, evaluated when only the bodies up to it had moved, would differ
\* from the finite one the step has stored
C20_Witness ==
    /\ Completed("step")
    /\ Len(pre.bodies) = Len(bodies)
    /\ \E k \in BodyIds :
          /\ FiniteBody(bodies[k])
          /\ << bodies[k].ax, bodies[k].ay, bodies[k].az >> = ForceOn(bodies, k)
          /\ ForceOn(MovedUpTo(k), k) # ForceOn(bodies, k)

\* C21: init_real_solar_system runs the force evaluator on the initial
\* positions and copies every acceleration into the previous acceleration,
\* and no step is executed on a store that init_real_solar_system has not
\* filled.
C21_SeededBeforeStep ==
    [][/\ ReInit =>
            \A k \in 1..Len(bodies') :
                \A force \in {ForceOn(bodies', k)} :
                    LET n == bodies'[k]
                    IN  /\ << n.ax, n.ay, n.az >> = force
                        /\ << n.ax_old, n.ay_old, n.az_old >> = force
       /\ StepRuns => bodies # << >>
    ]_vars

\* the time steps by which a store is moved before an evaluation
MoveDts == {1}

\* the store with every body moved by the position loop of step(dt), the
\* previous accelerations as they are
Moved(dt) == UpdatePositions(bodies, D(dt))

\* a body with its acceleration left out
Unaccelerated(b) == [b EXCEPT !.ax = D(0), !.ay = D(0), !.az = D(0)]

\* C22: compute_acceleration(i) changes ax, ay, az of body i and nothing
\* else, and compute_all_accelerations leaves every body's position,
\* velocity, mass, previous acceleration, id and trajectory buffers as they
\* were.
C22_EvaluatorFrame ==
    StoreIsNew => \A dt \in MoveDts :
        \A moved \in {Moved(dt)} :
            /\ \A i \in BodyIds :
                  \A one \in {compute_acceleration(moved, i)} :
                      /\ Len(one) = Len(moved)
                      /\ Unaccelerated(one[i]) = Unaccelerated(moved[i])
                      /\ \A k \in BodyIds \ {i} : one[k] = moved[k]
            /\ \A all \in {compute_all_accelerations(moved)} :
                  /\ Len(all) = Len(moved)
                  /\ \A k \in BodyIds :
                        Unaccelerated(all[k]) = Unaccelerated(moved[k])

\* a store with samples in which the evaluation of one body replaces a
\* non-zero acceleration that differs from the previous one by another
C22_Witness ==
    /\ pc = "idle"
    /\ \E k \in BodyIds :
          /\ bodies[k].trajectory_x # << >>
          /\ bodies[k].ax # bodies[k].ax_old
          /\ bodies[k].ax # D(0)
          /\ compute_acceleration(Moved(1), k)[k].ax # bodies[k].ax
          /\ IsFinite(compute_acceleration(Moved(1), k)[k].ax)

RECURSIVE SumInOrder(_, _, _, _)
\* the contributions of the bodies js[1], js[2], ... on body i, added to acc
\* one after the other
SumInOrder(bs, i, js, acc) ==
    IF js = << >> THEN acc
    ELSE SumInOrder(bs, i, Tail(js), Contribution(bs, i, Head(js), acc))

\* the indexes of all bodies but i, ascending
Others(n, i) == SelectSeq([j \in 1..n |-> j], LAMBDA j : j # i)

RECURSIVE EvaluateInOrder(_, _)
\* compute_acceleration called for the bodies order[1], order[2], ...
EvaluateInOrder(bs, order) ==
    IF order = << >> THEN bs
    ELSE EvaluateInOrder(compute_acceleration(bs, Head(order)), Tail(order))

\* orders in which the bodies 1..n may be evaluated: descending, and the
\* even indexes before the odd ones
EvaluationOrders(n) ==
    { [k \in 1..n |-> n + 1 - k],
      SelectSeq([j \in 1..n |-> j], LAMBDA j : j % 2 = 0)
          \o SelectSeq([j \in 1..n |-> j], LAMBDA j : j % 2 = 1) }

KineticTerm(b) ==
    Mul(Half(b.mass),
        Add(Add(Mul(b.vx, b.vx), Mul(b.vy, b.vy)), Mul(b.vz, b.vz)))

\* GRAV * m1 * m2 / r of the bodies a and b
PotentialTerm(a, b) ==
    LET dx == Sub(b.x, a.x)
        dy == Sub(b.y, a.y)
        dz == Sub(b.z, a.z)
    IN  Div(Mul(Mul(D(GRAV), a.mass), b.mass),
            Sqrt(Add(Add(Mul(dx, dx), Mul(dy, dy)), Mul(dz, dz))))

RECURSIVE PairsFrom(_, _, _)
\* the pairs << i, j >> with i < j <= n from << i, j >> on, in the order of
\* the two loops
PairsFrom(n, i, j) ==
    IF i >= n THEN << >>
    ELSE IF j > n THEN PairsFrom(n, i + 1, i + 2)
    ELSE << << i, j >> >> \o PairsFrom(n, i, j + 1)

\* every unordered pair of distinct bodies, once
Pairs(n) == PairsFrom(n, 1, 2)

RECURSIVE SumOf(_)
SumOf(terms) ==
    IF terms = << >> THEN D(0) ELSE Add(Head(terms), SumOf(Tail(terms)))

\* C24: the total energy of N bodies is the sum of N kinetic terms, one per
\* body, less the sum of N*(N-1)/2 potential terms, one per unordered pair
\* of distinct bodies.
C24_EnergyTerms ==
    StoreIsNew => \A n \in {Len(bodies)} : \A pairs \in {Pairs(n)} :
        LET kinetic == [k \in 1..n |-> KineticTerm(bodies[k])]
            potential == [p \in 1..Len(pairs) |->
                             PotentialTerm(bodies[pairs[p][1]], bodies[pairs[p][2]])]
        IN  /\ Len(pairs) = (n * (n - 1)) \div 2
            /\ \A p, q \in 1..Len(pairs) :
                  /\ pairs[p][1] # pairs[p][2]
                  /\ p # q => /\ pairs[p] # pairs[q]
                              /\ pairs[p] # << pairs[q][2], pairs[q][1] >>
            /\ calculate_total_energy(bodies)
                 = Add(SumOf(kinetic), Neg(SumOf(potential)))

\* a store of more than two moving bodies with a finite energy whose kinetic
\* and potential parts are both non-zero
C24_Witness ==
    /\ Len(bodies) > 2
    /\ pc = "idle"
    /\ step_count > 0
    /\ IsFinite(calculate_total_energy(bodies))
    /\ Cardinality({k \in BodyIds : KineticTerm(bodies[k]) # D(0)}) > 1
    /\ Cardinality({p \in 1..Len(Pairs(Len(bodies))) :
          PotentialTerm(bodies[Pairs(Len(bodies))[p][1]],
                        bodies[Pairs(Len(bodies))[p][2]]) # D(0)}) > 1

\* the transition is a call of get_trajectory that follows a completed call
\* of get_trajectory for the same body at once
QueryRepeated ==
    /\ Completed("get_trajectory")
    /\ calls' = calls + 1
    /\ call'.op = "get_trajectory"
    /\ call'.arg = call.arg

Parentings(bs) ==
    { [k \in 1..Len(bs) |-> -1],
      [k \in 1..Len(bs) |-> bs[Len(bs)].id] }

\* the store bs with the parent references ps
Reparented(bs, ps) == Done([k \in 1..Len(bs) |-> [bs[k] EXCEPT !.parent_id = ps[k]]])

\* the positions, velocities and accelerations of a store
KinematicsOf(bs) == Done([k \in 1..Len(bs) |-> Kinematics(bs[k])])

\* C26: a store left by a completed call and a store that differs from it
\* in parent_id values only have the same positions, velocities and
\* accelerations after any number of steps.
C26_ParentIgnored ==
    (pc = "idle" /\ StoreIsNew /\ bodies # << >>) =>
        \A dt \in MoveDts : \A n \in 0..MaxReverse :
            \A own \in {KinematicsOf(Advance(bodies, dt, n))} :
                \A ps \in Parentings(bodies) :
                    KinematicsOf(Advance(Reparented(bodies, ps), dt, n)) = own

\* a store with a satellite next to its parent: each pulls the other with a
\* finite, non-zero force, and two steps move both
C26_Witness ==
    /\ pc = "idle"
    /\ \E i, j \in BodyIds :
          /\ bodies[j].parent_id = bodies[i].id
          /\ FiniteBody(bodies[i]) /\ FiniteBody(bodies[j])
          /\ Contribution(bodies, i, j, << D(0), D(0), D(0) >>)
               # << D(0), D(0), D(0) >>
          /\ \E two \in {Advance(bodies, 1, 2)} :
                /\ FiniteBody(two[i]) /\ FiniteBody(two[j])
                /\ Kinematics(two[i]) # Kinematics(bodies[i])
                /\ Kinematics(two[j]) # Kinematics(bodies[j])

\* the number of pushes of a call of simulate whose loop has run i times:
\* ceil(i / 10)
PushesAfter(i) == (i + 9) \div 10

\* a call of simulate is running or has just returned
InRun == call.op = "simulate"

\* C27: a call of simulate whose loop has run i times has pushed
\* ceil(i / 10) samples into every body's buffer, counted from the buffer as
\* it was when the call started, whatever the step counter was then; a call
\* of step pushes none.
C27_PushesPerRun ==
    /\ InRun =>
          \A k \in BodyIds :
              /\ Len(pushed[k]) >= PushesAfter(sim_i)
              /\ Len(bodies[k].trajectory_x)
                   = Min(bodies[k].trajectory_max_points,
                         Len(pre.bodies[k].trajectory_x) + PushesAfter(sim_i))
              /\ PushesAfter(sim_i) > 0 =>
                    bodies[k].trajectory_x[Len(bodies[k].trajectory_x)]
                        = pushed[k][Len(pushed[k])][1]
    /\ Completed("step") =>
          \A k \in BodyIds : SameBuffers(pre.bodies[k], bodies[k])

\* a run of eleven steps that started at an odd step count has returned
\* with two more samples in a buffer of capacity three
C27_Witness ==
    /\ Completed("simulate")
    /\ sim_i = 11
    /\ pre.step_count % 10 # 0
    /\ \E k \in BodyIds :
          /\ bodies[k].trajectory_max_points = 3
          /\ Len(pre.bodies[k].trajectory_x) = 0
          /\ Len(bodies[k].trajectory_x) = 2

\* C28: the three coordinate buffers of a body have the same length, and the
\* entries at one index are the x, y and z of one pushed sample.
C28_BuffersAligned ==
    \A k \in BodyIds :
        LET b == bodies[k]
        IN  /\ Len(b.trajectory_y) = Len(b.trajectory_x)
            /\ Len(b.trajectory_z) = Len(b.trajectory_x)
            /\ \A n \in 1..Len(b.trajectory_x) :
                  \E m \in 1..Len(pushed[k]) :
                      pushed[k][m]
                          = << b.trajectory_x[n], b.trajectory_y[n], b.trajectory_z[n] >>

\* a full buffer has lost its oldest sample to a push, and the samples it
\* keeps differ in more than one coordinate
C28_Witness ==
    \E k \in BodyIds :
        LET b == bodies[k]
        IN  /\ Len(pushed[k]) > b.trajectory_max_points
            /\ Len(b.trajectory_x) = b.trajectory_max_points
            /\ Len(b.trajectory_x) >= 2
            /\ b.trajectory_x[1] # b.trajectory_x[2]
            /\ b.trajectory_y[1] # b.trajectory_y[2]

\* C29: after init_real_solar_system, whatever calls came before it, the
\* store holds the bodies of the table with their initial positions and
\* velocities, empty trajectory buffers and previous acceleration = current
\* acceleration = the force at the initial positions; elapsed time and step
\* counter are 0 and the reported total energy is the baseline energy: the
\* state of a first initialization.
C29_ReinitResets ==
    Completed("init") =>
        /\ Len(bodies) = Len(BodyTable)
        /\ \A k \in BodyIds :
              LET b == bodies[k]
                  t == BodyTable[k]
              IN  /\ << b.id, b.parent_id, b.mass, b.trajectory_max_points >>
                       = << t.id, t.parent_id, t.mass, t.trajectory_max_points >>
                  /\ << b.x, b.y, b.z, b.vx, b.vy, b.vz >>
                       = << t.x, t.y, t.z, t.vx, t.vy, t.vz >>
                  /\ << b.trajectory_x, b.trajectory_y, b.trajectory_z >>
                       = << << >>, << >>, << >> >>
                  /\ << b.ax, b.ay, b.az >> = ForceOn(BodyTable, k)
                  /\ << b.ax_old, b.ay_old, b.az_old >> = << b.ax, b.ay, b.az >>
        /\ simulation_time = D(0)
        /\ step_count = 0
        /\ total_energy = initial_energy
        /\ initial_energy = calculate_total_energy(bodies)

\* init_real_solar_system has been called on a store that a run had moved,
\* sampled and left with a drifted energy
C29_Witness ==
    /\ Completed("init")
    /\ pre.step_count > 0
    /\ pre.simulation_time # D(0)
    /\ pre.total_energy # pre.initial_energy
    /\ \E k \in 1..Len(pre.bodies) :
          /\ pre.bodies[k].trajectory_x # << >>
          /\ pre.bodies[k].x # BodyTable[k].x
          /\ pre.bodies[k].ax_old # pre.bodies[k].ax

\* the transition is a call of Animation::update
UpdateRuns == anim_call'.op = "update"

\* C30: an Animation with frames keeps current_frame within
\* 0..frames.size()-1 under every sequence of its calls, so getCurrentFrame
\* returns a frame of the list; an update that finishes a non-looping
\* Animation leaves it on the last frame, and further updates of a finished
\* non-looping Animation change neither the frame nor finished, which only
\* reset clears.
C30_FrameInRange ==
    /\ [](animation.frames # << >> =>
            /\ animation.current_frame \in 0..(Len(animation.frames) - 1)
            /\ anim_call.op = "getCurrentFrame" =>
                  anim_call.value = animation.frames[animation.current_frame + 1])
    /\ [][(UpdateRuns /\ ~animation.finished /\ animation'.finished) =>
            /\ ~animation.looping
            /\ animation'.current_frame = Len(animation.frames) - 1
       ]_anim_vars
    /\ [][(UpdateRuns /\ animation.finished /\ ~animation.looping) =>
            /\ animation'.current_frame = animation.current_frame
            /\ animation'.finished
       ]_anim_vars
    /\ [][(animation.finished /\ ~animation'.finished) => anim_call'.op = "reset"
       ]_anim_vars

\* a non-looping Animation of three frames has reached its end: it is on
\* the last frame, finished, and getCurrentFrame has read that frame
C30_Witness ==
    /\ Len(animation.frames) = 3
    /\ ~animation.looping
    /\ animation.finished
    /\ animation.current_frame = 2
    /\ anim_call.op = "getCurrentFrame"
    /\ anim_call.value = 9

====
